---- MODULE Spec2Model ----
(***************************************************************************)
(* Return calculator (streamlit_app.py): the exchange-rate resolver        *)
(* (fetch_live_exchange_rate, fetch_historical_exchange_rate,              *)
(* get_exchange_rate, get_current_exchange_rate), calculate_returns and    *)
(* the reverse calculation of main.                                        *)
(*                                                                         *)
(* Numbers.  Python floats are modelled in fixed point: money in 1e-4      *)
(* units (MoneyScale), rates and growth factors in 1e-6 units (Micro).     *)
(* Dates are day numbers; a timestamp is an hour number (day * 24 + hour). *)
(* The program blocks on every request to the quote source; one action     *)
(* runs the program from one blocking point to the next.                   *)
(* The reverse calculation works on house prices of the order of a         *)
(* million, which do not fit 1e-4 units in 32 bits: its amounts (house     *)
(* amount, selling amount and the stored results it reads) are whole       *)
(* currency units, and its ROI figures are in 1e-4 percent.                *)
(***************************************************************************)
EXTENDS Integers, Sequences, FiniteSets, TLC

VARIABLES
    payments,   \* the caller's payment list (st.session_state.payments)
    cfg,        \* sidebar configuration: currencies and desired return
    c,          \* locals of calculate_returns (c.pc: where it is blocked)
    call,       \* the resolver invocation in progress, or the last one
    reqs,       \* requests that invocation issued to the quote source
    resp,       \* the quote source's answer to the last request
    rate,       \* what the last resolver call made by a direct caller returned
    lookups,    \* resolver calls made by the running calculate_returns
    ret,        \* what the last calculate_returns call returned
    reverse,    \* the reverse calculation: the house amount, the selling amount,
                \* the stored results it reads, and what the last script run showed
    session,    \* the session state around calculate_returns: the slider's
                \* previous value, the auto-calculate flag, the time since
                \* last_calculation_time, and the handler waiting for the call
    trip        \* a caller's conversion of an amount to another currency and
                \* back: the two rates it got, and the source's quotes of the days

vars == <<payments, cfg, c, call, reqs, resp, rate, lookups, ret, reverse, session,
          trip>>

-----------------------------------------------------------------------------
(* Bounds of the model *)

MaxSamples == 2      \* samples in one time-series answer of the quote source
MaxPayments == 2     \* payments in the caller's list

-----------------------------------------------------------------------------
(* Values *)

None == 0 - 1                    \* Python None, where a number is expected
Micro == 1000 * 1000             \* 1.0 as a rate or growth factor
MoneyScale == 100 * 100          \* 1.0 as an amount of money
Infinity == 1000 * 1000 * 1000   \* float('inf') of the nearest-date scan

SUPPORTED_CURRENCIES == {"USD", "EUR", "GBP", "INR", "AED"}
Currencies == {"USD", "EUR", "GBP"}

Today == 1000                    \* the day of datetime.now()
PaymentDates == {Today - 365, Today + 10}
Amounts == {1000 * MoneyScale}
ReturnRates == {80}              \* desired return in tenths of a percent

Rates == {800000, 1250000}       \* quotes the source may give: 0.8 and 1.25
SampleHours == {0 - 1, 24, 288}  \* sample times, in hours from the target day's midnight
LiveRates == {1250000}          \* live quotes during a batch
LookupDates == {Today - 365}
ResolverCurrencies == {"USD", "EUR"}

Abs(x) == IF x < 0 THEN 0 - x ELSE x

-----------------------------------------------------------------------------
(* Fixed-point arithmetic standing for the float operations *)

\* a * f for a factor f in Micro units (f < 2147 * 1000), rounded to nearest
MulMicro(a, f) ==
    LET qa  == a \div Micro
        ra  == a % Micro
        qf  == f \div 1000
        rf  == f % 1000
        mid == ra * qf
    IN  qa * f + mid \div 1000
        + ((mid % 1000) * 1000 + ra * rf + Micro \div 2) \div Micro

\* round(n / d, 0) for n >= 0, d > 0: Python rounds halves to even
RoundRatio(n, d) ==
    LET q == n \div d
        r == n % d
    IN  IF 2 * r > d THEN q + 1
        ELSE IF 2 * r < d THEN q
        ELSE q + (q % 2)

\* round(x, k) where unit is 10^k steps of x's scale; symmetric in sign
RoundTo(x, unit) ==
    IF x < 0 THEN 0 - RoundRatio(0 - x, unit) ELSE RoundRatio(x, unit)

\* ln(1 + desired_return/100), desired_return in tenths of a percent
LnBase(desired_return) ==
    LET z  == (desired_return * Micro + (2000 + desired_return) \div 2)
                \div (2000 + desired_return)
        z2 == MulMicro(z, z)
        z3 == MulMicro(z2, z)
        z5 == MulMicro(z3, z2)
        z7 == MulMicro(z5, z2)
    IN  (2 * (105 * z + 35 * z3 + 21 * z5 + 15 * z7) + 52) \div 105

RECURSIVE ExpTerms(_, _, _)
ExpTerms(t, term, k) ==
    IF term = 0 \/ k > 12 THEN 0
    ELSE term + ExpTerms(t, (MulMicro(term, t) + k \div 2) \div k, k + 1)

\* e^t in Micro units
ExpMicro(t) == ExpTerms(t, Micro, 1)

\* Variant: a year of 365 days
YearsMicroCommonYear(days) == ((days * 10000) \div 365) * 100

\* days / 365.25 in Micro units, for days >= 0 (365.25 = FourYears / 4)
FourYears == 1461

YearsMicro(days) ==
    LET q  == days \div FourYears
        r4 == (days % FourYears) * 4
        hi == (r4 * 100000) \div FourYears
        lo == (((r4 * 100000) % FourYears) * 10) \div FourYears
    IN  q * 4 * Micro + hi * 10 + lo

\* (1 + desired_return/100) ** years, as exp(years * ln(base))
Growth(desired_return, days) ==
    ExpMicro(MulMicro(YearsMicro(days), LnBase(desired_return)))

RECURSIVE Pow10(_)
Pow10(k) == IF k = 0 THEN 1 ELSE 10 * Pow10(k - 1)

\* n / d to the given number of decimals, by long division (n >= 0, d > 0)
RECURSIVE LongDiv(_, _, _)
LongDiv(n, d, decimals) ==
    IF decimals = 0 THEN RoundRatio(n, d)
    ELSE (n \div d) * Pow10(decimals) + LongDiv((n % d) * 10, d, decimals - 1)

\* a / b in Micro units, for b > 0 in the units of a
Quotient(a, b) == IF a < 0 THEN 0 - LongDiv(0 - a, b, 6) ELSE LongDiv(a, b, 6)

\* a * b for any b in Micro units
Times(a, b) == a * (b \div Micro) + MulMicro(a, b % Micro)

\* ln(a / b) for a, b > 0 close to each other, as 2 * atanh((a - b) / (a + b))
LnSeries(a, b) ==
    LET z  == Quotient(a - b, a + b)
        z2 == MulMicro(z, z)
        z3 == MulMicro(z2, z)
        z5 == MulMicro(z3, z2)
        z7 == MulMicro(z5, z2)
        z9 == MulMicro(z7, z2)
    IN  (2 * (315 * z + 105 * z3 + 63 * z5 + 45 * z7 + 35 * z9) + 157) \div 315

\* ln(a / b) for any a, b > 0: ln(a / b) = ln 2 + ln(a / 2b) = - ln(b / a)
RECURSIVE LnRatio(_, _)
LnRatio(a, b) ==
    IF a > 2 * b THEN LnSeries(2, 1) + LnRatio(a, 2 * b)
    ELSE IF b > 2 * a THEN 0 - LnRatio(b, a)
    ELSE LnSeries(a, b)

\* e^t in Micro units for any t: e^t = (e^(t/2))^2 brings t into ExpMicro's range
RECURSIVE ExpWide(_)
ExpWide(t) ==
    IF Abs(t) > Micro THEN LET h == ExpWide(t \div 2) IN Times(h, h)
    ELSE ExpMicro(t)

\* ln of the largest float, in Micro units
LnFloatMax == 709 * Micro + 782712

\* (a / b) ** (1 / years) raises OverflowError: the power exceeds the largest float
PowOverflows(a, b, years) == a > 0 /\ Quotient(LnRatio(a, b), years) > LnFloatMax

\* (a / b) ** (1 / years), years > 0 in Micro units (0.0 ** x is 0.0)
Root(a, b, years) == IF a = 0 THEN 0 ELSE ExpWide(Quotient(LnRatio(a, b), years))

\* 1 percent, as a return on investment (ROI figures are in 1e-4 percent)
Percent == 100 * 100

-----------------------------------------------------------------------------
(* The quote source's answers *)

\* One (timestamp, close) pair of a chart time series; either may be null
Samples(target) ==
    [ts : {None} \cup {target * 24 + h : h \in SampleHours},
     close : {None} \cup Rates]

SeqsUpTo(S, n) == UNION {[1..k -> S] : k \in 0..n}

\* Answers to a chart request with period1/period2: a transport or HTTP error
\* or a malformed payload (an exception in the try block), a payload without
\* the chart/result/timestamp/close structure, or a time series
HistResponses(target) ==
    {[kind |-> "error", samples |-> <<>>], [kind |-> "nodata", samples |-> <<>>]}
    \cup {[kind |-> "series", samples |-> s] : s \in SeqsUpTo(Samples(target), MaxSamples)}

\* Answers to a live request: an exception, an empty result list, a result
\* without regularMarketPrice, or a price (which may be null or 0)
LiveResponses ==
    {[kind |-> "error", price |-> None], [kind |-> "empty", price |-> None],
     [kind |-> "noprice", price |-> None]}
    \cup {[kind |-> "price", price |-> p] : p \in {None, 0} \cup Rates}

\* The answers drawn while a batch calculation is running
BatchHistResponses(target) ==
    {[kind |-> "error", samples |-> <<>>], [kind |-> "nodata", samples |-> <<>>]}
    \cup {[kind |-> "series", samples |-> <<[ts |-> target * 24, close |-> r]>>] : r \in Rates}

BatchLiveResponses ==
    {[kind |-> "error", price |-> None], [kind |-> "noprice", price |-> None]}
    \cup {[kind |-> "price", price |-> p] : p \in LiveRates}

NoResponse == [kind |-> "none", samples |-> <<>>]

-----------------------------------------------------------------------------
(* fetch_historical_exchange_rate: the nearest-date scan *)

\* Variant: the difference is truncated toward zero instead of floored
DateDiffTruncated(timestamp, target_date) ==
    Abs(timestamp - target_date * 24) \div 24

\* abs((rate_date - target_date).days): timedelta.days is the floor
DateDiff(timestamp, target_date) == Abs((timestamp - target_date * 24) \div 24)

\* if date_diff < closest_date_diff
Closer(date_diff, closest_date_diff) == date_diff < closest_date_diff

\* for i, timestamp in enumerate(timestamps): ... from index i on
RECURSIVE Scan(_, _, _, _)
Scan(samples, target_date, i, closest) ==
    IF i > Len(samples) THEN closest
    ELSE LET s == samples[i] IN
         IF s.ts # None /\ s.close # None
            /\ Closer(DateDiff(s.ts, target_date), closest.diff)
         THEN Scan(samples, target_date, i + 1,
                   [rate |-> s.close, diff |-> DateDiff(s.ts, target_date)])
         ELSE Scan(samples, target_date, i + 1, closest)

\* closest_rate of one window's answer; None when the answer has no usable
\* sample or lacks the time series
ClosestRate(response, target_date) ==
    IF response.kind = "series" /\ Len(response.samples) > 0
    THEN Scan(response.samples, target_date, 1,
              [rate |-> None, diff |-> Infinity]).rate
    ELSE None

-----------------------------------------------------------------------------
(* The resolver: requests, steps and return values *)

NoCall == [fn |-> "none", from |-> "", to |-> "", date |-> 0, stage |-> 0,
           caller |-> "none"]

Historical == {"get_exchange_rate", "fetch_historical_exchange_rate"}
Live == {"get_current_exchange_rate", "fetch_live_exchange_rate"}

\* Variant: the equal-currency shortcut is missing
NeverSameCurrency(from_currency, to_currency) == FALSE

\* if from_currency == to_currency: return 1.0
SameCurrency(from_currency, to_currency) == from_currency = to_currency

\* The chart request of one window (period1/period2 = target -/+ days), the
\* live chart request and the live quotes request
Request(url, from_currency, to_currency, days) ==
    [url |-> url, symbol |-> <<from_currency, to_currency>>, days |-> days]

NarrowWindow == 5
WideWindow == 30

FirstRequest(fn, from_currency, to_currency) ==
    IF fn \in Historical
    THEN Request("chart_range", from_currency, to_currency, NarrowWindow)
    ELSE Request("chart", from_currency, to_currency, 0)

Done(value) == [done |-> TRUE, value |-> value, req |-> Request("", "", "", 0)]
Ask(req) == [done |-> FALSE, value |-> None, req |-> req]

\* Variant: the answer to the wide-window request is never scanned
FetchHistoricalStepNarrowOnly(stage, from_currency, to_currency, date, response) ==
    IF response.kind = "error" THEN Done(None)
    ELSE IF stage = 1 /\ ClosestRate(response, date) # None
    THEN Done(ClosestRate(response, date))
    ELSE IF stage = 1
    THEN Ask(Request("chart_range", from_currency, to_currency, WideWindow))
    ELSE Done(None)

\* Variant: after an error on the narrow window the wide window is tried
FetchHistoricalStepRetry(stage, from_currency, to_currency, date, response) ==
    IF response.kind # "error" /\ ClosestRate(response, date) # None
    THEN Done(ClosestRate(response, date))
    ELSE IF stage = 1
    THEN Ask(Request("chart_range", from_currency, to_currency, WideWindow))
    ELSE Done(None)

\* fetch_historical_exchange_rate after the answer to the request of `stage`
FetchHistoricalStep(stage, from_currency, to_currency, date, response) ==
    IF response.kind = "error" THEN Done(None)
    ELSE IF ClosestRate(response, date) # None
    THEN Done(ClosestRate(response, date))
    ELSE IF stage = 1
    THEN Ask(Request("chart_range", from_currency, to_currency, WideWindow))
    ELSE Done(None)

\* fetch_live_exchange_rate after the answer to the request of `stage`
FetchLiveStep(stage, from_currency, to_currency, response) ==
    IF response.kind = "error" THEN Done(None)
    ELSE IF response.kind = "price" THEN Done(response.price)
    ELSE IF stage = 1
    THEN Ask(Request("quote", from_currency, to_currency, 0))
    ELSE Done(None)     \* result[0] of an empty list raises; no price: None

Ok(value) == [status |-> "ok", value |-> value]
Raise == [status |-> "raise", value |-> None]
NoRate == [status |-> "none", value |-> None]

\* Variant: a missing historical rate is replaced by 1.0, as for live rates
GetExchangeRateOrOne(historical_rate) ==
    IF historical_rate = None THEN [status |-> "ok", value |-> Micro]
    ELSE [status |-> "ok", value |-> historical_rate]

\* get_exchange_rate, given what fetch_historical_exchange_rate returned
GetExchangeRateReturn(historical_rate) ==
    IF historical_rate = None THEN Raise ELSE Ok(historical_rate)

\* Variant: a missing live rate is not replaced by 1.0
GetCurrentExchangeRateOrZero(live_rate) ==
    IF live_rate = None \/ live_rate = 0 THEN Ok(0) ELSE Ok(live_rate)

\* get_current_exchange_rate: fetch_live_exchange_rate(...) or 1.0
GetCurrentExchangeRateReturn(live_rate) ==
    IF live_rate = None \/ live_rate = 0 THEN Ok(Micro) ELSE Ok(live_rate)

ReturnOf(fn, value) ==
    IF fn = "get_exchange_rate" THEN GetExchangeRateReturn(value)
    ELSE IF fn = "get_current_exchange_rate" THEN GetCurrentExchangeRateReturn(value)
    ELSE Ok(value)

-----------------------------------------------------------------------------
(* calculate_returns *)

NoSummary ==
    [total_invested_investment_currency |-> 0,
     total_invested_property_currency |-> 0,
     total_future_value_investment_currency |-> 0,
     total_future_value_property_currency |-> 0,
     total_pure_interest |-> 0,
     total_currency_impact |-> 0,
     multiplying_factor_investment |-> 0,
     multiplying_factor_property |-> 0,
     simple_roi |-> 0,
     time_weighted_roi |-> 0,
     pure_roi |-> 0,
     average_investment_time |-> 0,
     weighted_time |-> 0,
     total_weight |-> 0]

NotCalled == [kind |-> "none", results |-> <<>>, summary |-> NoSummary]
ReturnedNone == [kind |-> "None", results |-> <<>>, summary |-> NoSummary]

NoLocals ==
    [pc |-> "idle", passed |-> <<>>, today |-> 0, i |-> 0, n |-> 0,
     desired_return |-> 0,
     investment_currency |-> "", property_currency |-> "",
     results |-> <<>>, internals |-> <<>>,
     total_invested_investment_currency |-> 0,
     total_invested_property_currency |-> 0,
     total_future_value_property_currency |-> 0,
     total_future_value_investment_currency |-> 0,
     amount_in_investment_currency |-> 0,
     amount_in_property_currency |-> 0,
     investment_date_rate |-> 0,
     future_value_property_currency |-> 0]

\* Variant: the empty-list check is missing
NeverEmptyPayments(list) == FALSE

\* if not payments
EmptyPayments(list) == list = <<>>

\* Variant: the list is processed in the order given
KeepOrder(list) == list

\* payments.sort(key=date): a stable sort, in place
RECURSIVE InsertByDate(_, _)
InsertByDate(sorted, p) ==
    IF sorted = <<>> THEN <<p>>
    ELSE IF sorted[Len(sorted)].date <= p.date THEN Append(sorted, p)
    ELSE Append(InsertByDate(SubSeq(sorted, 1, Len(sorted) - 1), p),
                sorted[Len(sorted)])

RECURSIVE SortByDate(_)
SortByDate(list) ==
    IF list = <<>> THEN <<>>
    ELSE InsertByDate(SortByDate(SubSeq(list, 1, Len(list) - 1)), list[Len(list)])

\* Variant: the passthrough for payments in property currency is missing
NeverInPropertyCurrency(payment_currency, property_currency) == FALSE

\* if payment_currency == property_currency (line 301)
AlreadyInPropertyCurrency(payment_currency, property_currency) ==
    payment_currency = property_currency

\* (today - investment_datetime).days
ElapsedDays(today, date) == today - date

\* round(years, 2) with years = days / 365.25, in hundredths of a year
YearsRounded(days) ==
    IF days < 0 THEN 0 - RoundRatio((0 - days) * 400, FourYears)
    ELSE RoundRatio(days * 400, FourYears)

\* amount * (1 + desired_return/100) ** years if years > 0, else amount
FutureValue(amount, desired_return, days) ==
    IF days > 0 THEN MulMicro(amount, Growth(desired_return, days)) ELSE amount

\* currency_impact = future_value_investment_currency - pure_future_value
CurrencyImpact(future_value_investment_currency, pure_future_value) ==
    future_value_investment_currency - pure_future_value

\* Variant: the payment's own amount is converted, not the converted one
ToPropertyCurrencyFromAmount(amount, amount_in_investment_currency, investment_date_rate) ==
    MulMicro(amount, investment_date_rate)

\* amount_in_property_currency = amount_in_investment_currency * investment_date_rate
ToPropertyCurrency(amount, amount_in_investment_currency, investment_date_rate) ==
    MulMicro(amount_in_investment_currency, investment_date_rate)

Cents(money) == RoundTo(money, 100)

RECURSIVE SumFrom(_, _)
SumFrom(numbers, i) ==
    IF i > Len(numbers) THEN 0 ELSE numbers[i] + SumFrom(numbers, i + 1)

\* weighted_time / total_weight if total_weight > 0 else 0, in Micro years;
\* the weights are in cents and the years in hundredths
AverageInvestmentTime(weighted_time, total_weight) ==
    IF total_weight > 0 THEN Quotient(weighted_time, total_weight * 100) ELSE 0

\* (future value - invested) / invested * 100, 0 when nothing is invested
SimpleRoi(total_future_value, total_invested) ==
    IF total_invested > 0
    THEN Times(100 * Percent, Quotient(total_future_value - total_invested, total_invested))
    ELSE 0

\* Variant: the simple ROI per year of the average investment time
TimeWeightedRoiPerYear(total_future_value, total_invested, average_investment_time) ==
    IF total_invested > 0 /\ average_investment_time > 0
    THEN Quotient(SimpleRoi(total_future_value, total_invested), average_investment_time)
    ELSE 0

\* ((future value / invested) ** (1 / average_investment_time) - 1) * 100
TimeWeightedRoi(total_future_value, total_invested, average_investment_time) ==
    IF total_invested > 0 /\ average_investment_time > 0
    THEN Times(100 * Percent,
               Root(total_future_value, total_invested, average_investment_time) - Micro)
    ELSE 0

\* (total_pure_interest / invested) * 100, the interest being in cents
PureRoi(total_pure_interest, total_invested) ==
    IF total_invested > 0
    THEN Times(100 * Percent, Quotient(total_pure_interest * 100, total_invested))
    ELSE 0

\* Variant: with nothing invested the factor is the neutral 1.0
MultiplyingFactorOrOne(total_future_value, total_invested) ==
    IF total_invested > 0 THEN Quotient(total_future_value, total_invested) ELSE Micro

\* future value / invested if invested > 0 else 0
MultiplyingFactor(total_future_value, total_invested) ==
    IF total_invested > 0 THEN Quotient(total_future_value, total_invested) ELSE 0

\* lines 359-421: the totals of the summary and the returned structure
Aggregate(m) ==
    LET res == m.c.results
        Sum(F(_)) == SumFrom([k \in 1..Len(res) |-> F(res[k])], 1)
        InvTimesYears(r) == r.amount_in_investment_currency * r.years
        Inv(r) == r.amount_in_investment_currency
        Pure(r) == r.pure_interest_earned_investment_currency
        Impact(r) == r.currency_impact
        invested == m.c.total_invested_investment_currency
        future_value == m.c.total_future_value_investment_currency
        average_investment_time == AverageInvestmentTime(Sum(InvTimesYears), Sum(Inv))
        summary ==
            [total_invested_investment_currency |-> invested,
             total_invested_property_currency |-> m.c.total_invested_property_currency,
             total_future_value_investment_currency |-> future_value,
             total_future_value_property_currency |-> m.c.total_future_value_property_currency,
             total_pure_interest |-> Sum(Pure),
             total_currency_impact |-> Sum(Impact),
             multiplying_factor_investment |-> MultiplyingFactor(future_value, invested),
             multiplying_factor_property |->
                 MultiplyingFactor(m.c.total_future_value_property_currency,
                                   m.c.total_invested_property_currency),
             simple_roi |-> SimpleRoi(future_value, invested),
             time_weighted_roi |->
                 TimeWeightedRoi(future_value, invested, average_investment_time),
             pure_roi |-> PureRoi(Sum(Pure), invested),
             average_investment_time |-> average_investment_time,
             weighted_time |-> Sum(InvTimesYears),
             total_weight |-> Sum(Inv)]
    IN  [m EXCEPT !.c.pc = "idle",
                  !.ret = [kind |-> "result", results |-> res, summary |-> summary]]

\* Variant: on a rate failure the payments done so far are returned
OnRateErrorPartial(m) == Aggregate(m)

\* except ValueError: st.error(...); return None
OnRateError(m) == [m EXCEPT !.c.pc = "idle", !.ret = ReturnedNone]

RECURSIVE Invoke(_, _, _, _, _, _)
RECURSIVE Return(_, _)
RECURSIVE LoopTop(_)
RECURSIVE AfterConversion(_, _)
RECURSIVE AfterPropertyAmount(_, _, _)
RECURSIVE AfterCurrentRate(_, _)

\* A call of a resolver function: returns at once for equal currencies,
\* otherwise issues the first request and blocks
Invoke(m, caller, fn, date, from_currency, to_currency) ==
    LET m1 == [m EXCEPT !.call = [fn |-> fn, from |-> from_currency,
                                  to |-> to_currency, date |-> date,
                                  stage |-> 0, caller |-> caller],
                        !.reqs = <<>>,
                        !.resp = NoResponse,
                        !.c.pc = IF caller = "top" THEN @ ELSE caller]
    IN  IF SameCurrency(from_currency, to_currency)
        THEN Return(m1, Ok(Micro))
        ELSE [m1 EXCEPT !.call.stage = 1,
                        !.reqs = <<FirstRequest(fn, from_currency, to_currency)>>]

\* The resolver call returns (or raises) to its caller
Return(m, outcome) ==
    LET m1 == IF m.call.caller = "top" THEN m
              ELSE [m EXCEPT !.lookups =
                        Append(@, [i |-> m.c.i, fn |-> m.call.fn,
                                   from |-> m.call.from, to |-> m.call.to,
                                   date |-> m.call.date,
                                   status |-> outcome.status,
                                   value |-> outcome.value])]
        p == m.payments[m.c.i]
    IN  CASE m.call.caller = "top" -> [m EXCEPT !.rate = outcome]
          [] m.call.caller = "conversion" ->
                IF outcome.status = "raise" THEN OnRateError(m1)
                ELSE AfterConversion(m1, MulMicro(p.amount, outcome.value))
          [] m.call.caller = "investment_date" ->
                IF outcome.status = "raise" THEN OnRateError(m1)
                ELSE AfterPropertyAmount(m1,
                        ToPropertyCurrency(p.amount, m.c.amount_in_investment_currency,
                                           outcome.value),
                        outcome.value)
          [] m.call.caller = "current" -> AfterCurrentRate(m1, outcome.value)

\* for payment in payments: lines 281-295
LoopTop(m) ==
    IF m.c.i > Len(m.payments) THEN Aggregate(m)
    ELSE LET p == m.payments[m.c.i] IN
         IF p.amount_currency # m.c.investment_currency
         THEN Invoke(m, "conversion", "get_exchange_rate", p.date,
                     p.amount_currency, m.c.investment_currency)
         ELSE AfterConversion(m, p.amount)

\* lines 297-310
AfterConversion(m, amount_in_investment_currency) ==
    LET p  == m.payments[m.c.i]
        m1 == [m EXCEPT !.c.amount_in_investment_currency = amount_in_investment_currency,
                        !.c.total_invested_investment_currency =
                            @ + amount_in_investment_currency]
    IN  IF AlreadyInPropertyCurrency(p.amount_currency, m.c.property_currency)
        THEN AfterPropertyAmount(m1, p.amount, Micro)
        ELSE Invoke(m1, "investment_date", "get_exchange_rate", p.date,
                    m.c.investment_currency, m.c.property_currency)

\* lines 312-329
AfterPropertyAmount(m, amount_in_property_currency, investment_date_rate) ==
    LET p    == m.payments[m.c.i]
        days == ElapsedDays(m.c.today, p.date)
        fv   == FutureValue(amount_in_property_currency, m.c.desired_return, days)
        m1   == [m EXCEPT !.c.amount_in_property_currency = amount_in_property_currency,
                          !.c.investment_date_rate = investment_date_rate,
                          !.c.total_invested_property_currency =
                              @ + amount_in_property_currency,
                          !.c.future_value_property_currency = fv,
                          !.c.total_future_value_property_currency = @ + fv]
    IN  Invoke(m1, "current", "get_current_exchange_rate", 0,
               m.c.property_currency, m.c.investment_currency)

\* lines 330-357, and on to the next payment
AfterCurrentRate(m, current_rate) ==
    LET p      == m.payments[m.c.i]
        days   == ElapsedDays(m.c.today, p.date)
        inv    == m.c.amount_in_investment_currency
        prop   == m.c.amount_in_property_currency
        fvprop == m.c.future_value_property_currency
        fvinv  == MulMicro(fvprop, current_rate)
        pure   == FutureValue(inv, m.c.desired_return, days)
        pure_interest_earned == IF days > 0 THEN pure - inv ELSE 0
        impact == CurrencyImpact(fvinv, pure)
        entry  ==
            [date |-> p.date,
             amount |-> p.amount,
             amount_currency |-> p.amount_currency,
             amount_in_investment_currency |-> Cents(inv),
             amount_in_property_currency |-> Cents(prop),
             investment_date_rate |-> RoundTo(m.c.investment_date_rate, 100),
             years |-> YearsRounded(days),
             future_value_investment_currency |-> Cents(fvinv),
             future_value_property_currency |-> Cents(fvprop),
             pure_interest_earned_investment_currency |-> Cents(pure_interest_earned),
             pure_interest_earned_property_currency |->
                 Cents(MulMicro(pure_interest_earned, current_rate)),
             currency_impact |-> Cents(impact)]
        unrounded ==
            [days |-> days,
             amount_in_investment_currency |-> inv,
             amount_in_property_currency |-> prop,
             investment_date_rate |-> m.c.investment_date_rate,
             current_rate |-> current_rate,
             future_value_property_currency |-> fvprop,
             interest_earned_property_currency |-> IF days > 0 THEN fvprop - prop ELSE 0,
             future_value_investment_currency |-> fvinv,
             pure_future_value |-> pure,
             pure_interest_earned |-> pure_interest_earned,
             currency_impact |-> impact]
    IN  LoopTop([m EXCEPT !.c.results = Append(@, entry),
                          !.c.internals = Append(@, unrounded),
                          !.c.total_future_value_investment_currency = @ + fvinv,
                          !.c.i = @ + 1])

\* calculate_returns(payments, desired_return, investment_currency,
\* property_currency): lines 264-281; the list is the caller's own object
CalculateReturns(m, desired_return, investment_currency, property_currency) ==
    LET m0 == [m EXCEPT !.lookups = <<>>,
                        !.c = [NoLocals EXCEPT !.n = Len(m.payments),
                                               !.passed = m.payments]]
    IN  IF EmptyPayments(m.payments)
        THEN [m0 EXCEPT !.ret = ReturnedNone]
        ELSE LoopTop([m0 EXCEPT
                !.payments = SortByDate(@),
                !.ret = NotCalled,
                !.c = [NoLocals EXCEPT !.pc = "loop", !.today = Today, !.i = 1,
                           !.n = Len(m.payments),
                           !.passed = m.payments,
                           !.desired_return = desired_return,
                           !.investment_currency = investment_currency,
                           !.property_currency = property_currency]])

\* The answer to the pending request arrives
Reply(m, response) ==
    LET k    == m.call
        step == IF k.fn \in Historical
                THEN FetchHistoricalStep(k.stage, k.from, k.to, k.date, response)
                ELSE FetchLiveStep(k.stage, k.from, k.to, response)
        m1   == [m EXCEPT !.resp = response]
    IN  IF step.done
        THEN Return([m1 EXCEPT !.call.stage = 0], ReturnOf(k.fn, step.value))
        ELSE [m1 EXCEPT !.call.stage = 2, !.reqs = Append(@, step.req)]

-----------------------------------------------------------------------------
(* The reverse calculation of main: sidebar, main content and quick actions *)

Min(a, b) == IF a < b THEN a ELSE b

\* property_appreciation: what the sale brings above the agreed house amount
PropertyAppreciation(selling_amount, initial_house_amount) ==
    IF selling_amount >= initial_house_amount
    THEN selling_amount - initial_house_amount ELSE 0

\* Variant: the whole selling amount is shared
HouseValuePortionSelling(selling_amount, initial_house_amount) == selling_amount

\* house_value_portion: the part of the sale that is shared by ownership
HouseValuePortion(selling_amount, initial_house_amount) ==
    IF selling_amount >= initial_house_amount
    THEN initial_house_amount ELSE selling_amount

\* Variant: the share is not capped
InvestmentPercentageUncapped(total_invested_property, initial_house_amount) ==
    Quotient(total_invested_property, initial_house_amount)

\* your_investment_percentage = min(total_invested_property / initial_house_amount, 1.0)
YourInvestmentPercentage(total_invested_property, initial_house_amount) ==
    Min(Quotient(total_invested_property, initial_house_amount), Micro)

\* Variant: the gain as a part of the return
SellingRoiOfReturn(your_total_return, total_invested_property) ==
    IF total_invested_property > 0 /\ your_total_return > 0
    THEN Times(100 * Percent, Micro - Quotient(total_invested_property, your_total_return))
    ELSE 0

\* selling_roi = (your_total_return / total_invested_property - 1) * 100
SellingRoi(your_total_return, total_invested_property) ==
    IF total_invested_property > 0
    THEN Times(100 * Percent, Quotient(your_total_return, total_invested_property) - Micro)
    ELSE 0

NoCalculation ==
    [shown |-> FALSE, raised |-> FALSE,
     property_appreciation |-> 0, house_value_portion |-> 0,
     your_investment_percentage |-> 0, your_share_of_house |-> 0,
     your_total_return |-> 0, potential_return |-> 0, selling_roi |-> 0,
     selling_time_weighted_roi |-> 0, annualized_return |-> 0]

\* lines 618-653 (sidebar) and 1341-1369 (main content): the same calculation;
\* an OverflowError of the power at line 643 ends it with nothing shown
ReverseCalculation(selling_amount, initial_house_amount, summary) ==
    LET total_invested_property == summary.total_invested_property_currency
        average_investment_time == summary.average_investment_time
        property_appreciation == PropertyAppreciation(selling_amount, initial_house_amount)
        house_value_portion == HouseValuePortion(selling_amount, initial_house_amount)
        your_investment_percentage ==
            YourInvestmentPercentage(total_invested_property, initial_house_amount)
        your_share_of_house == MulMicro(house_value_portion, your_investment_percentage)
        your_total_return == your_share_of_house + property_appreciation
        selling_roi == SellingRoi(your_total_return, total_invested_property)
        overflow == /\ total_invested_property > 0
                    /\ average_investment_time > 0
                    /\ PowOverflows(your_total_return, total_invested_property,
                                    average_investment_time)
    IN  IF overflow THEN [NoCalculation EXCEPT !.raised = TRUE] ELSE
        [shown |-> TRUE,
         raised |-> FALSE,
         property_appreciation |-> property_appreciation,
         house_value_portion |-> house_value_portion,
         your_investment_percentage |-> your_investment_percentage,
         your_share_of_house |-> your_share_of_house,
         your_total_return |-> your_total_return,
         potential_return |-> your_total_return - total_invested_property,
         selling_roi |-> selling_roi,
         selling_time_weighted_roi |->
             TimeWeightedRoi(your_total_return, total_invested_property,
                             average_investment_time),
         annualized_return |->
             IF total_invested_property > 0 /\ average_investment_time > 0
             THEN Quotient(selling_roi, average_investment_time) ELSE 0]

NoBreakEven == [shown |-> FALSE, break_even_amount |-> 0]

\* lines 1527-1529: the break-even scenario below the analysis
BreakEvenScenario(total_invested_property, your_investment_percentage) ==
    [shown |-> TRUE,
     break_even_amount |->
         IF your_investment_percentage > 0
         THEN Quotient(total_invested_property, your_investment_percentage) ELSE 0]

\* lines 706-718: the sidebar's Quick Reverse Calc
QuickSidebar(results) ==
    IF results.kind = "result" /\ results.summary.total_invested_property_currency > 0
    THEN [shown |-> TRUE,
          break_even_amount |-> results.summary.total_invested_property_currency]
    ELSE NoBreakEven

\* lines 1221-1246: the main Quick Reverse Calc, over the entries of the results
QuickMain(results) ==
    IF results.kind = "result"
    THEN [shown |-> TRUE,
          break_even_amount |->
              SumFrom([k \in 1..Len(results.results) |->
                          results.results[k].amount_in_property_currency], 1)]
    ELSE NoBreakEven

NoStored == [kind |-> "none", results |-> <<>>, summary |-> NoSummary]

NothingShown ==
    [sidebar |-> NoCalculation, quick_sidebar |-> NoBreakEven,
     quick_main |-> NoBreakEven, analysis |-> NoCalculation, scenario |-> NoBreakEven]

\* the default of the house amount input
DefaultHouseAmount == 1000000

NoReverse ==
    [initial_house_amount |-> DefaultHouseAmount, selling_amount |-> 0,
     results |-> NoStored, shown |-> NothingShown]

\* One run of the script with the selling amount input at the given value and
\* the given button pressed ("none", "quick_sidebar" or "quick_main"); an
\* exception in the sidebar's calculation ends the run there
ScriptRun(rev, selling_amount, button) ==
    LET results == rev.results
        calculated == selling_amount > 0 /\ results.kind = "result"
        calculation == ReverseCalculation(selling_amount, rev.initial_house_amount,
                                          results.summary)
    IN  IF calculated /\ calculation.raised
        THEN [rev EXCEPT !.selling_amount = selling_amount,
                         !.shown = [NothingShown EXCEPT !.sidebar = calculation]]
        ELSE
        [rev EXCEPT
            !.selling_amount = selling_amount,
            !.shown =
                [sidebar |-> IF calculated THEN calculation ELSE NoCalculation,
                 quick_sidebar |-> IF button = "quick_sidebar"
                                   THEN QuickSidebar(results) ELSE NoBreakEven,
                 quick_main |-> IF button = "quick_main"
                                THEN QuickMain(results) ELSE NoBreakEven,
                 analysis |-> IF calculated THEN calculation ELSE NoCalculation,
                 scenario |-> IF calculated
                              THEN BreakEvenScenario(
                                       results.summary.total_invested_property_currency,
                                       calculation.your_investment_percentage)
                              ELSE NoBreakEven]]

-----------------------------------------------------------------------------
(* The session of main around calculate_returns *)

\* Time since last_calculation_time, in half seconds: the debounce of the
\* slider is 0.5 s, the progress loop before an automatic calculation sleeps
\* 100 x 0.01 s, and LongAgo stands for any longer time
Debounce == 1
ProgressSleep == 2
LongAgo == Debounce + ProgressSleep

\* st.session_state before the first interaction: no handler is waiting,
\* auto_calculate is unset, last_calculation_time defaults to 0
NoSession ==
    [handler |-> "none", auto_calculate |-> FALSE, previous_return_rate |-> 0,
     since_last_calculation |-> LongAgo]

\* Variant: a slider change right after an automatic calculation is dropped
DebounceAfterSleep(since_last_calculation) == since_last_calculation > ProgressSleep

\* if current_time - st.session_state.last_calculation_time > 0.5
DebouncePassed(since_last_calculation) == since_last_calculation > Debounce

\* Variant: a failed calculation removes the stored results
StoredOrCleared(results, returned) ==
    IF returned.kind = "result" THEN returned ELSE NoStored

\* if results: st.session_state.results = results (otherwise an error message)
Stored(results, returned) ==
    IF returned.kind = "result" THEN returned ELSE results

\* st.session_state.payments.pop(i)
RemoveAt(list, i) == SubSeq(list, 1, i - 1) \o SubSeq(list, i + 1, Len(list))

\* The handler ("calculate" or "auto") after its call of calculate_returns:
\* it waits while the call is blocked on the quote source; when the call has
\* returned it stores a result, and the automatic one resets its flag (of
\* the call's locals only the rate it was given is kept on record)
AfterCalculate(m, rev, ses, handler) ==
    IF m.c.pc # "idle"
    THEN [m |-> m, reverse |-> rev, session |-> [ses EXCEPT !.handler = handler]]
    ELSE [m |-> [m EXCEPT !.c = [NoLocals EXCEPT !.desired_return = m.c.desired_return],
                          !.call = NoCall, !.reqs = <<>>,
                          !.resp = NoResponse, !.lookups = <<>>],
          reverse |-> [rev EXCEPT !.results = Stored(@, m.ret)],
          session |-> [ses EXCEPT !.handler = "none",
                                  !.auto_calculate =
                                      IF handler = "auto" THEN FALSE ELSE @]]

-----------------------------------------------------------------------------
(* A caller converting an amount to another currency and back *)

\* The days around the target date the quote source has quotes for
TripDays == {0, 1}

\* 1 / rate in Micro units
Reciprocal(r) == Quotient(Micro, r)

NoTrip == [leg |-> 0, amount |-> 0, from |-> "", to |-> "", date |-> 0,
           quotes |-> <<>>, there |-> NoRate, back |-> NoRate]

\* Answers of one quote source to the chart requests of a round trip: the
\* day's quote for the pair, its reciprocal for the reverse pair; a series
\* holds the samples of some of the days
TripResponses(target, quotes, reverse_pair) ==
    {[kind |-> "error", samples |-> <<>>], [kind |-> "nodata", samples |-> <<>>]}
    \cup {[kind |-> "series",
           samples |-> [k \in 1..Len(days) |->
                           [ts |-> (target + days[k]) * 24,
                            close |-> IF reverse_pair
                                      THEN Reciprocal(quotes[days[k] + 1])
                                      ELSE quotes[days[k] + 1]]]] :
            days \in {<<0>>, <<1>>, <<0, 1>>}}

\* amount * rate(date, X, Y) * rate(date, Y, X)
RoundTrip(amount, there, back) == MulMicro(MulMicro(amount, there), back)

-----------------------------------------------------------------------------
(* The state machine *)

State == [payments |-> payments, c |-> c, call |-> call, reqs |-> reqs,
          resp |-> resp, rate |-> rate, lookups |-> lookups, ret |-> ret]

Assigns(m) ==
    /\ payments' = m.payments
    /\ c' = m.c
    /\ call' = m.call
    /\ reqs' = m.reqs
    /\ resp' = m.resp
    /\ rate' = m.rate
    /\ lookups' = m.lookups
    /\ ret' = m.ret

Becomes(m) == Assigns(m) /\ UNCHANGED <<cfg, reverse, session, trip>>

\* The state a handler of the session leaves
HandlerLeaves(after) ==
    /\ Assigns(after.m)
    /\ reverse' = after.reverse
    /\ session' = after.session
    /\ UNCHANGED trip

Idle == c.pc = "idle" /\ call.stage = 0

Init ==
    /\ payments = <<>>
    /\ cfg \in [investment_currency : {"USD"}, property_currency : {"USD", "EUR"},
                desired_return : ReturnRates]
    /\ c = NoLocals
    /\ call = NoCall
    /\ reqs = <<>>
    /\ resp = NoResponse
    /\ rate = NoRate
    /\ lookups = <<>>
    /\ ret = NotCalled
    /\ reverse = NoReverse
    /\ session = NoSession
    /\ trip = NoTrip

\* A direct caller calls one of the four resolver functions
CallResolver ==
    /\ Idle
    /\ \E fn \in Historical \cup Live, date \in LookupDates,
          from_currency \in ResolverCurrencies, to_currency \in ResolverCurrencies :
            Becomes(Invoke([State EXCEPT !.rate = NoRate], "top", fn,
                           IF fn \in Historical THEN date ELSE 0,
                           from_currency, to_currency))

\* The quote source answers the request of a direct caller's resolver call
SourceReplies ==
    /\ call.stage > 0
    /\ call.caller = "top"
    /\ \E response \in (IF call.fn \in Historical THEN HistResponses(call.date)
                        ELSE LiveResponses) :
            Becomes(Reply(State, response))

\* "Add Payment": a record is appended to the caller's list
AddPayment ==
    /\ Idle
    /\ Len(payments) < MaxPayments
    /\ \E date \in PaymentDates, amount \in Amounts, currency \in Currencies :
            /\ payments' = Append(payments, [date |-> date, amount |-> amount,
                                             amount_currency |-> currency])
            /\ UNCHANGED <<cfg, c, call, reqs, resp, rate, lookups, ret, reverse, session, trip>>

\* A caller calls calculate_returns with its payment list and configuration
Calculate ==
    /\ Idle
    /\ Becomes(CalculateReturns(State, cfg.desired_return,
                                cfg.investment_currency, cfg.property_currency))

\* The quote source answers a request of the running batch
BatchReplies ==
    /\ call.stage > 0
    /\ call.caller # "top"
    /\ \E response \in (IF call.fn \in Historical THEN BatchHistResponses(call.date)
                        ELSE BatchLiveResponses) :
            Becomes(Reply(State, response))

\* What the loop of calculate_returns leaves for one payment of a list whose
\* currencies are all the same: the payment, and the growth factor
\* (1 + desired_return/100) ** years it was compounded with
AggregateDays == {0 - 10, 0, 365, 730}
AggregateAmounts == {0, 1000 * MoneyScale}
GrowthFactors == {Micro, 1200000}

LoopOutcomes ==
    {o \in [date : {Today - d : d \in AggregateDays}, amount : AggregateAmounts,
            growth : GrowthFactors] :
        (o.amount = 0 \/ o.date >= Today) => o.growth = Micro}

\* lines 297-342 for such a payment: every rate is 1.0
OneCurrencyValues(o) ==
    LET days == ElapsedDays(Today, o.date)
        fv   == IF days > 0 THEN MulMicro(o.amount, o.growth) ELSE o.amount
    IN  [days |-> days,
         amount_in_investment_currency |-> o.amount,
         amount_in_property_currency |-> o.amount,
         investment_date_rate |-> Micro,
         current_rate |-> Micro,
         future_value_property_currency |-> fv,
         interest_earned_property_currency |-> IF days > 0 THEN fv - o.amount ELSE 0,
         future_value_investment_currency |-> fv,
         pure_future_value |-> fv,
         pure_interest_earned |-> IF days > 0 THEN fv - o.amount ELSE 0,
         currency_impact |-> CurrencyImpact(fv, fv)]

\* lines 344-357: the entry appended to results
OneCurrencyEntry(o, currency) ==
    LET u == OneCurrencyValues(o)
    IN  [date |-> o.date,
         amount |-> o.amount,
         amount_currency |-> currency,
         amount_in_investment_currency |-> Cents(u.amount_in_investment_currency),
         amount_in_property_currency |-> Cents(u.amount_in_property_currency),
         investment_date_rate |-> RoundTo(u.investment_date_rate, 100),
         years |-> YearsRounded(u.days),
         future_value_investment_currency |-> Cents(u.future_value_investment_currency),
         future_value_property_currency |-> Cents(u.future_value_property_currency),
         pure_interest_earned_investment_currency |-> Cents(u.pure_interest_earned),
         pure_interest_earned_property_currency |-> Cents(u.pure_interest_earned),
         currency_impact |-> Cents(u.currency_impact)]

\* The locals of calculate_returns when its loop has processed the whole list
LoopDone(list, currency) ==
    LET n == Len(list)
        values == [k \in 1..n |-> OneCurrencyValues(list[k])]
        invested == SumFrom([k \in 1..n |-> values[k].amount_in_investment_currency], 1)
        future_value == SumFrom([k \in 1..n |-> values[k].future_value_investment_currency], 1)
    IN  [NoLocals EXCEPT
            !.pc = "loop", !.today = Today, !.i = n + 1, !.n = n,
            !.passed = [k \in 1..n |-> [date |-> list[k].date, amount |-> list[k].amount,
                                        amount_currency |-> currency]],
            !.investment_currency = currency,
            !.property_currency = currency,
            !.results = [k \in 1..n |-> OneCurrencyEntry(list[k], currency)],
            !.internals = values,
            !.total_invested_investment_currency = invested,
            !.total_invested_property_currency = invested,
            !.total_future_value_property_currency = future_value,
            !.total_future_value_investment_currency = future_value]

\* calculate_returns has processed every payment of a sorted, non-empty list
InitAggregate ==
    /\ \E list \in SeqsUpTo(LoopOutcomes, MaxPayments) :
            /\ list # <<>>
            /\ \A k \in 1..(Len(list) - 1) : list[k].date <= list[k + 1].date
            /\ c = LoopDone(list, "USD")
    /\ payments = c.passed
    /\ cfg \in [investment_currency : {"USD"}, property_currency : {"USD"},
                desired_return : ReturnRates]
    /\ call = NoCall
    /\ reqs = <<>>
    /\ resp = NoResponse
    /\ rate = NoRate
    /\ lookups = <<>>
    /\ ret = NotCalled
    /\ reverse = NoReverse
    /\ session = NoSession
    /\ trip = NoTrip

\* lines 359-421 run on what the loop left
FinishLoop ==
    /\ c.pc = "loop"
    /\ call.stage = 0
    /\ Becomes(LoopTop(State))

\* What the reverse calculation may find: house amounts, selling amounts, and
\* stored results with their property-currency amounts and average time
HouseAmounts == {1000000, 2000000}
SellingAmounts == {0, 800000, 1200000}
InvestedAmounts == {0 - 500000, 0, 500000, 1000000}
AverageTimes == {0, 2 * Micro}

\* The stored results of one payment of 100 made four days ago (years 0.01)
RecentSmallPayment ==
    [kind |-> "result",
     results |-> <<[amount_in_property_currency |-> 100]>>,
     summary |-> [NoSummary EXCEPT !.total_invested_property_currency = 100,
                                   !.average_investment_time = Micro \div 100]]

StoredResults ==
    {NoStored, RecentSmallPayment} \cup
    {[kind |-> "result",
      results |-> [k \in 1..Len(amounts) |-> [amount_in_property_currency |-> amounts[k]]],
      summary |-> [NoSummary EXCEPT
                      !.total_invested_property_currency = SumFrom(amounts, 1),
                      !.average_investment_time = average]] :
        amounts \in SeqsUpTo(InvestedAmounts, MaxPayments) \ {<<>>},
        average \in AverageTimes}

InitReverse ==
    /\ payments = <<>>
    /\ cfg \in [investment_currency : {"USD"}, property_currency : {"USD"},
                desired_return : ReturnRates]
    /\ c = NoLocals
    /\ call = NoCall
    /\ reqs = <<>>
    /\ resp = NoResponse
    /\ rate = NoRate
    /\ lookups = <<>>
    /\ ret = NotCalled
    /\ reverse \in [initial_house_amount : HouseAmounts, selling_amount : {0},
                    results : StoredResults, shown : {NothingShown}]
    /\ session = NoSession
    /\ trip = NoTrip

\* The selling amount is entered in the sidebar: the script runs with it
EnterSellingAmount ==
    /\ \E selling_amount \in SellingAmounts :
            reverse' = ScriptRun(reverse, selling_amount, "none")
    /\ UNCHANGED <<payments, cfg, c, call, reqs, resp, rate, lookups, ret, session, trip>>

\* "Quick Reverse Calc" of the sidebar is pressed
QuickReverseCalcSidebar ==
    /\ reverse' = ScriptRun(reverse, reverse.selling_amount, "quick_sidebar")
    /\ UNCHANGED <<payments, cfg, c, call, reqs, resp, rate, lookups, ret, session, trip>>

\* "Quick Reverse Calc" of the main content is pressed
QuickReverseCalcMain ==
    /\ reverse' = ScriptRun(reverse, reverse.selling_amount, "quick_main")
    /\ UNCHANGED <<payments, cfg, c, call, reqs, resp, rate, lookups, ret, session, trip>>

\* What the session works on: the slider's values, the currency of the
\* amounts entered, and the payment lists a settings file may hold (one as
\* saved by the application, one with a zero amount)
SliderRates == {80, 120}
SessionDates == {Today - 365}
AmountCurrencies == {"EUR"}
SettingsPayments ==
    {<<[date |-> Today - 365, amount |-> 1000 * MoneyScale, amount_currency |-> "USD"]>>,
     <<[date |-> Today - 365, amount |-> 0, amount_currency |-> "EUR"]>>}

\* The first script run: nothing stored, previous_return_rate is the slider's value
InitSession ==
    /\ payments = <<>>
    /\ cfg \in [investment_currency : {"USD"}, property_currency : {"USD"},
                desired_return : SliderRates]
    /\ c = NoLocals
    /\ call = NoCall
    /\ reqs = <<>>
    /\ resp = NoResponse
    /\ rate = NoRate
    /\ lookups = <<>>
    /\ ret = NotCalled
    /\ reverse = NoReverse
    /\ session = [NoSession EXCEPT !.previous_return_rate = cfg.desired_return]
    /\ trip = NoTrip

\* "Add Payment": the amount entered, in the currency of the amounts, is appended
PressAddPayment ==
    /\ Idle
    /\ Len(payments) < MaxPayments
    /\ \E date \in SessionDates, amount \in Amounts, currency \in AmountCurrencies :
            payments' = Append(payments, [date |-> date, amount |-> amount,
                                          amount_currency |-> currency])
    /\ UNCHANGED <<cfg, c, call, reqs, resp, rate, lookups, ret, reverse, session, trip>>

\* "Remove": the selected payment is popped from the list
RemovePayment ==
    /\ Idle
    /\ \E i \in 1..Len(payments) : payments' = RemoveAt(payments, i)
    /\ UNCHANGED <<cfg, c, call, reqs, resp, rate, lookups, ret, reverse, session, trip>>

\* "Clear All Payments", in the sidebar (lines 699-703) or the main content
\* (lines 1213-1218): the list is emptied and the stored results are deleted
ClearAllPayments ==
    /\ Idle
    /\ payments' = <<>>
    /\ reverse' = [reverse EXCEPT !.results = NoStored]
    /\ UNCHANGED <<cfg, c, call, reqs, resp, rate, lookups, ret, session, trip>>

\* "Load Settings": the payments of the settings file replace the list
LoadSettings ==
    /\ Idle
    /\ payments' \in SettingsPayments
    /\ UNCHANGED <<cfg, c, call, reqs, resp, rate, lookups, ret, reverse, session, trip>>

\* "Calculate Returns" with a non-empty list (an empty one only gets a warning)
PressCalculate ==
    /\ Idle
    /\ payments # <<>>
    /\ LET m == CalculateReturns(State, cfg.desired_return,
                                 cfg.investment_currency, cfg.property_currency)
       IN  HandlerLeaves(AfterCalculate(m, reverse, session, "calculate"))
    /\ UNCHANGED cfg

\* The return rate slider is moved: lines 572-583, and the automatic
\* calculation of lines 918-951 later in the same script run
SlideReturnRate ==
    /\ Idle
    /\ \E return_rate \in SliderRates \ {session.previous_return_rate} :
          LET changed == [session EXCEPT !.previous_return_rate = return_rate]
              auto_calculate ==
                  payments # <<>> /\ DebouncePassed(session.since_last_calculation)
              started == [changed EXCEPT !.auto_calculate = TRUE,
                                         !.since_last_calculation = ProgressSleep]
              m == CalculateReturns(State, return_rate,
                                    cfg.investment_currency, cfg.property_currency)
          IN  /\ cfg' = [cfg EXCEPT !.desired_return = return_rate]
              /\ IF auto_calculate
                 THEN HandlerLeaves(AfterCalculate(m, reverse, started, "auto"))
                 ELSE /\ session' = changed
                      /\ UNCHANGED <<payments, c, call, reqs, resp, rate, lookups,
                                     ret, reverse, trip>>

\* The quote source answers a request of the calculation a handler waits for
SessionReplies ==
    /\ call.stage > 0
    /\ session.handler # "none"
    /\ \E response \in (IF call.fn \in Historical THEN BatchHistResponses(call.date)
                        ELSE BatchLiveResponses) :
          HandlerLeaves(AfterCalculate(Reply(State, response), reverse, session,
                                       session.handler))
    /\ UNCHANGED cfg

\* A caller converts an amount from one currency to another with
\* get_exchange_rate for a date; the quote source has its quotes of the days
ConvertThere ==
    /\ Idle
    /\ trip.leg = 0
    /\ \E amount \in Amounts, date \in LookupDates,
          from_currency \in ResolverCurrencies, to_currency \in ResolverCurrencies,
          quotes \in [1..Cardinality(TripDays) -> Rates] :
          LET m == Invoke([State EXCEPT !.rate = NoRate], "top", "get_exchange_rate",
                          date, from_currency, to_currency)
          IN  /\ Assigns(m)
              /\ trip' = [leg |-> 1, amount |-> amount, from |-> from_currency,
                          to |-> to_currency, date |-> date, quotes |-> quotes,
                          there |-> m.rate, back |-> NoRate]
    /\ UNCHANGED <<cfg, reverse, session>>

\* The caller converts back with get_exchange_rate for the same date
ConvertBack ==
    /\ Idle
    /\ trip.leg = 1
    /\ trip.there.status = "ok"
    /\ LET m == Invoke([State EXCEPT !.rate = NoRate], "top", "get_exchange_rate",
                       trip.date, trip.to, trip.from)
       IN  /\ Assigns(m)
           /\ trip' = [trip EXCEPT !.leg = 2, !.back = m.rate]
    /\ UNCHANGED <<cfg, reverse, session>>

\* The quote source answers a request of one of the two lookups
TripReplies ==
    /\ call.stage > 0
    /\ trip.leg > 0
    /\ \E response \in TripResponses(call.date, trip.quotes, trip.leg = 2) :
          LET m == Reply(State, response)
          IN  /\ Assigns(m)
              /\ trip' = IF trip.leg = 1 THEN [trip EXCEPT !.there = m.rate]
                         ELSE [trip EXCEPT !.back = m.rate]
    /\ UNCHANGED <<cfg, reverse, session>>

NextRates == CallResolver \/ SourceReplies

NextRoundTrip == ConvertThere \/ ConvertBack \/ TripReplies

NextSession ==
    \/ PressAddPayment
    \/ RemovePayment
    \/ ClearAllPayments
    \/ LoadSettings
    \/ PressCalculate
    \/ SlideReturnRate
    \/ SessionReplies

NextReverse == EnterSellingAmount \/ QuickReverseCalcSidebar \/ QuickReverseCalcMain

NextAggregate == FinishLoop

Next == AddPayment \/ Calculate \/ BatchReplies

\* The resolver under direct calls, with every answer of the quote source
SpecRates == Init /\ [][NextRates]_vars

\* Batch calculations over the caller's payment list
Spec == Init /\ [][Next]_vars

\* The aggregation step of calculate_returns over every outcome of its loop
SpecAggregate == InitAggregate /\ [][NextAggregate]_vars

\* The reverse calculation over stored results
SpecReverse == InitReverse /\ [][NextReverse]_vars

\* Conversions there and back through the resolver, with one quote source
SpecRoundTrip == Init /\ [][NextRoundTrip]_vars

\* The session: payments entered, removed, cleared and loaded, calculations
\* by the button and by the slider
SpecSession == InitSession /\ [][NextSession]_vars

-----------------------------------------------------------------------------
(* Properties of the resolver, checked under SpecRates *)

Usable(s) == s.ts # None /\ s.close # None

\* The answer holds at least one sample with a timestamp and a close
HasUsable(response) ==
    /\ response.kind = "series"
    /\ \E k \in 1..Len(response.samples) : Usable(response.samples[k])

\* Distance in days between the sample's calendar date and the target date
CalendarDistance(s, target_date) == Abs(s.ts \div 24 - target_date)

\* Indices of the usable samples nearest to the target date
Nearest(response, target_date) ==
    {k \in 1..Len(response.samples) :
        /\ Usable(response.samples[k])
        /\ \A j \in 1..Len(response.samples) :
              Usable(response.samples[j]) =>
                 CalendarDistance(response.samples[k], target_date)
                    <= CalendarDistance(response.samples[j], target_date)}

DirectCallDone == call.caller = "top" /\ call.stage = 0

\* C1: a resolver call with from == to, historical or live, wrapper or fetch
\* function, returns exactly 1.0 and issues no request to the quote source.
C1_SameCurrencyIsOne ==
    (call.caller = "top" /\ call.from = call.to) =>
        /\ call.stage = 0
        /\ rate = Ok(Micro)
        /\ reqs = <<>>

C1_Witness ==
    /\ DirectCallDone
    /\ call.fn = "get_exchange_rate"
    /\ call.from = call.to
    /\ rate = Ok(Micro)

\* C2: get_exchange_rate for two different currencies issues only historical
\* (chart range) requests, raises when the last window answered yields no
\* usable sample, and otherwise returns the close of a sample of that answer.
C2_NoLiveFallback ==
    (DirectCallDone /\ call.fn = "get_exchange_rate" /\ call.from # call.to) =>
        /\ \A k \in 1..Len(reqs) : reqs[k].url = "chart_range"
        /\ ~HasUsable(resp) => rate = Raise
        /\ rate.status = "ok" =>
              \E k \in 1..Len(resp.samples) :
                  Usable(resp.samples[k]) /\ rate.value = resp.samples[k].close

C2_Witness ==
    /\ DirectCallDone
    /\ call.fn = "get_exchange_rate"
    /\ Len(reqs) = 2
    /\ resp.kind = "series"
    /\ ~HasUsable(resp)
    /\ rate = Raise

\* C3: the 30-day request is issued only as the second request, after a 5-day
\* answer without usable sample; and when the 30-day answer holds a usable
\* sample the lookup returns a sample's close (that sample's, when it is the
\* only one) instead of failing.
C3_WideWindowAfterNarrow ==
    (call.caller = "top" /\ call.fn \in Historical) =>
        /\ \A k \in 1..Len(reqs) :
              reqs[k].days = WideWindow =>
                 k = 2 /\ reqs[1].days = NarrowWindow
        /\ call.stage = 2 =>
              Len(reqs) = 2 /\ resp.kind # "error" /\ ~HasUsable(resp)
        /\ (call.stage = 0 /\ Len(reqs) = 2 /\ HasUsable(resp)) =>
              /\ rate.status = "ok"
              /\ \E k \in 1..Len(resp.samples) :
                    Usable(resp.samples[k]) /\ rate.value = resp.samples[k].close

C3_Witness ==
    /\ DirectCallDone
    /\ call.fn = "get_exchange_rate"
    /\ Len(reqs) = 2
    /\ reqs[2].days = WideWindow
    /\ resp.kind = "series"
    /\ resp.samples = <<[ts |-> call.date * 24 + 288, close |-> 1250000]>>
    /\ rate = Ok(1250000)

\* C4 as stated: the lookup returns the close of the usable sample nearest
\* to the target date and, among equally near samples, of the earliest one.
C4_NearestEarliest ==
    (DirectCallDone /\ call.fn \in Historical /\ call.from # call.to
       /\ HasUsable(resp)) =>
        \E k \in Nearest(resp, call.date) :
            /\ \A j \in Nearest(resp, call.date) :
                  resp.samples[k].ts <= resp.samples[j].ts
            /\ rate.value = resp.samples[k].close

\* C4 amended: the lookup returns the close of the usable sample nearest to
\* the target date and, among equally near samples, of the one that comes
\* first in the answer.
C4_NearestFirst ==
    (DirectCallDone /\ call.fn \in Historical /\ call.from # call.to
       /\ HasUsable(resp)) =>
        \E k \in Nearest(resp, call.date) :
            /\ \A j \in Nearest(resp, call.date) : k <= j
            /\ rate.value = resp.samples[k].close

C4_Witness ==
    /\ DirectCallDone
    /\ call.fn = "fetch_historical_exchange_rate"
    /\ resp.kind = "series"
    /\ Len(resp.samples) = 2
    /\ Nearest(resp, call.date) = {1, 2}
    /\ resp.samples[1].ts > resp.samples[2].ts
    /\ resp.samples[1].close # resp.samples[2].close
    /\ rate = Ok(resp.samples[1].close)

-----------------------------------------------------------------------------
(* Properties of calculate_returns, checked under Spec *)

Returned == c.pc = "idle" /\ ret.kind # "none"

Failed(l) == l.status = "raise"

\* C5: once a historical lookup of the batch has failed, calculate_returns
\* has returned None; a returned result covers every payment of the list
\* and rests on no failed lookup.
C5_NoPartialResult ==
    /\ (\E k \in 1..Len(lookups) : Failed(lookups[k])) =>
          c.pc = "idle" /\ ret = ReturnedNone
    /\ ret.kind = "result" =>
          /\ Len(ret.results) = c.n
          /\ \A k \in 1..Len(lookups) : ~Failed(lookups[k])

C5_Witness ==
    /\ Returned
    /\ c.n = 2
    /\ Len(c.results) = 1
    /\ Failed(lookups[Len(lookups)])
    /\ lookups[Len(lookups)].i = 2
    /\ ret = ReturnedNone

\* C6: calculate_returns called with an empty list returns None, not a
\* summary, and makes no rate lookup.
C6_EmptyListNoResult ==
    (Returned /\ c.n = 0) =>
        /\ ret = ReturnedNone
        /\ lookups = <<>>

C6_Witness ==
    /\ Returned
    /\ c.n = 0
    /\ payments = <<>>
    /\ ret = ReturnedNone

\* C7 as stated: for a payment dated after the evaluation day the result has
\* years equal to 0, future value equal to the principal in both currencies
\* and interest equal to 0.
C7_FutureDatedClamped ==
    \A k \in 1..Len(c.results) :
        c.internals[k].days < 0 =>
            /\ c.results[k].years = 0
            /\ c.results[k].future_value_property_currency
                  = c.results[k].amount_in_property_currency
            /\ c.results[k].future_value_investment_currency
                  = c.results[k].amount_in_investment_currency
            /\ c.results[k].pure_interest_earned_investment_currency = 0
            /\ c.results[k].pure_interest_earned_property_currency = 0

\* The single payment of 1000 at 8%, dated 365 days before the evaluation
\* day, every currency the same
OneYearCase ==
    /\ ret.kind = "result"
    /\ Len(ret.results) = 1
    /\ c.desired_return = 80
    /\ c.investment_currency = c.property_currency
    /\ ret.results[1].amount_currency = c.investment_currency
    /\ ret.results[1].amount = 1000 * MoneyScale
    /\ ret.results[1].date = c.today - 365

\* C8 as stated: in the one-year case the future value is within 0.01 of
\* 1080.00 and the currency impact is 0.
C8_WithinOneCent ==
    OneYearCase =>
        /\ Abs(ret.results[1].future_value_investment_currency - 108000) <= 1
        /\ ret.results[1].currency_impact = 0

\* C8 amended: in the one-year case years = 365 / 365.25, so the future
\* value is 1079.94 (within 0.06 of 1080.00, not within 0.01), the pure
\* interest 79.94 and the currency impact 0; each to the cent.
C8_OneYearValue ==
    OneYearCase =>
        /\ c.internals[1].days = 365
        /\ ret.results[1].years = 100
        /\ Abs(ret.results[1].future_value_investment_currency - 107994) <= 1
        /\ Abs(ret.results[1].future_value_property_currency - 107994) <= 1
        /\ Abs(ret.results[1].pure_interest_earned_investment_currency - 7994) <= 1
        /\ ret.results[1].currency_impact = 0

C8_Witness ==
    /\ OneYearCase
    /\ ret.results[1].future_value_investment_currency > 107900
    /\ ret.results[1].currency_impact = 0

\* C9: for every payment the currency impact is the FX-adjusted future value
\* in investment currency minus the currency-neutral one, and it is exactly
\* 0 when investment and property currency are the same, whatever the
\* payment's currency.
C9_CurrencyImpact ==
    \A k \in 1..Len(c.results) :
        LET u == c.internals[k] IN
        /\ u.future_value_investment_currency
              = MulMicro(u.future_value_property_currency, u.current_rate)
        /\ u.pure_future_value
              = FutureValue(u.amount_in_investment_currency, c.desired_return, u.days)
        /\ u.currency_impact
              = u.future_value_investment_currency - u.pure_future_value
        /\ c.results[k].currency_impact = Cents(u.currency_impact)
        /\ c.investment_currency = c.property_currency =>
              u.currency_impact = 0 /\ c.results[k].currency_impact = 0

C9_Witness ==
    /\ ret.kind = "result"
    /\ c.investment_currency = c.property_currency
    /\ \E k \in 1..Len(c.results) :
          /\ c.results[k].amount_currency # c.investment_currency
          /\ c.internals[k].days > 0
          /\ c.internals[k].pure_interest_earned > 0
          /\ c.internals[k].currency_impact = 0

\* The historical investment-to-property lookups made for payment k
PropertyLookups(k) ==
    {j \in 1..Len(lookups) :
        /\ lookups[j].i = k
        /\ lookups[j].fn = "get_exchange_rate"
        /\ lookups[j].from = c.investment_currency
        /\ lookups[j].to = c.property_currency}

\* C10: a payment in property currency has the payment amount as its
\* property-currency principal and causes no historical lookup from
\* investment to property currency; any other payment's principal is its
\* investment-currency amount times the historical investment-to-property
\* rate looked up for the payment's date.
C10_PropertyPrincipal ==
    \A k \in 1..Len(c.results) :
        LET e == c.results[k]
            u == c.internals[k]
        IN  IF e.amount_currency = c.property_currency
            THEN /\ u.amount_in_property_currency = e.amount
                 /\ PropertyLookups(k) = {}
            ELSE \E j \in PropertyLookups(k) :
                    /\ PropertyLookups(k) = {j}
                    /\ lookups[j].date = e.date
                    /\ lookups[j].status = "ok"
                    /\ u.investment_date_rate = lookups[j].value
                    /\ u.amount_in_property_currency
                          = MulMicro(u.amount_in_investment_currency, lookups[j].value)

C10_Witness ==
    /\ ret.kind = "result"
    /\ c.investment_currency # c.property_currency
    /\ Len(c.results) = 2
    /\ c.results[1].amount_currency = c.property_currency
    /\ c.results[2].amount_currency \notin {c.property_currency, c.investment_currency}
    /\ c.internals[2].investment_date_rate = 800000

-----------------------------------------------------------------------------
(* Properties of the summary and of the caller's list *)

\* days / 365.25 in Micro units, of either sign
SignedYears(days) == IF days < 0 THEN 0 - YearsMicro(0 - days) ELSE YearsMicro(days)

\* The weighted average of the unrounded years, each taken as Years(days),
\* with the unrounded amounts in investment currency as weights
WeightedAverage(values, Years(_)) ==
    LET n == Len(values)
        weight == SumFrom([k \in 1..n |-> values[k].amount_in_investment_currency], 1)
        weighted == SumFrom([k \in 1..n |->
                        MulMicro(values[k].amount_in_investment_currency,
                                 Years(values[k].days))], 1)
    IN  IF weight > 0 THEN Quotient(weighted, weight) ELSE 0

HasResult == c.pc = "idle" /\ ret.kind = "result"

\* C11 as stated: the four totals and the pure-interest and currency-impact
\* totals of the summary are the sums of the unrounded per-payment values,
\* and the average investment time is the weighted average of the unrounded
\* years; no rounded field enters a summary figure.
C11_UnroundedTotals ==
    HasResult =>
        LET u == c.internals
            Sum(F(_)) == SumFrom([k \in 1..Len(u) |-> F(u[k])], 1)
            Inv(x) == x.amount_in_investment_currency
            Prop(x) == x.amount_in_property_currency
            FvInv(x) == x.future_value_investment_currency
            FvProp(x) == x.future_value_property_currency
            Pure(x) == x.pure_interest_earned
            Impact(x) == x.currency_impact
        IN  /\ ret.summary.total_invested_investment_currency = Sum(Inv)
            /\ ret.summary.total_invested_property_currency = Sum(Prop)
            /\ ret.summary.total_future_value_investment_currency = Sum(FvInv)
            /\ ret.summary.total_future_value_property_currency = Sum(FvProp)
            /\ ret.summary.total_pure_interest * 100 = Sum(Pure)
            /\ ret.summary.total_currency_impact * 100 = Sum(Impact)
            /\ ret.summary.average_investment_time = WeightedAverage(u, SignedYears)

\* C12 as stated: after calculate_returns has returned, with a result or
\* with None, the caller's list holds the records it held at the call, in
\* the same order.
C12_ListAsPassed ==
    (c.pc = "idle" /\ ret.kind # "none") => SubSeq(payments, 1, c.n) = c.passed

Payment(r) == [date |-> r.date, amount |-> r.amount, amount_currency |-> r.amount_currency]

Occurrences(list, p) == Cardinality({k \in 1..Len(list) : Payment(list[k]) = p})

\* C13: a returned result has one entry for each payment passed (the same
\* dates, amounts and currencies, each as often as it was passed), and the
\* entries are in ascending order of date.
C13_OnePerPaymentAscending ==
    ret.kind = "result" =>
        /\ Len(ret.results) = Len(c.passed)
        /\ \A k \in 1..Len(c.passed) :
              Occurrences(ret.results, c.passed[k]) = Occurrences(c.passed, c.passed[k])
        /\ \A k \in 1..(Len(ret.results) - 1) :
              ret.results[k].date <= ret.results[k + 1].date

C13_Witness ==
    /\ HasResult
    /\ Len(c.passed) = 2
    /\ c.passed[1].date > c.passed[2].date
    /\ Len(ret.results) = 2
    /\ ret.results[1].date < ret.results[2].date

ClampedYears(days) == IF days < 0 THEN 0 ELSE YearsMicro(days)

\* C14 as stated: the average investment time is the sum of amount times
\* clamped elapsed years over the sum of the amounts (in investment
\* currency), and 0 when nothing is invested; here to within a hundredth
\* of a year, the step to which the code rounds each payment's years.
C14_ClampedWeightedAverage ==
    HasResult =>
        Abs(ret.summary.average_investment_time - WeightedAverage(c.internals, ClampedYears))
            <= Micro \div 100

-----------------------------------------------------------------------------
(* Properties of the aggregation step, checked under SpecAggregate *)

Compounded(roi, years) ==
    ExpWide(Times(LnRatio(Micro + Quotient(roi, 100 * Percent), Micro), years))

\* The summary of 1000 invested, 1200 of future value, 2 years on average
TwoYearCase ==
    /\ HasResult
    /\ ret.summary.total_invested_investment_currency = 1000 * MoneyScale
    /\ ret.summary.total_future_value_investment_currency = 1200 * MoneyScale
    /\ ret.summary.average_investment_time = 2 * Micro

\* C16: the time-weighted ROI is 0 when the average investment time is 0;
\* when the average is positive it is the yearly rate r for which
\* (1 + r/100) ** average = total future value / total invested (in
\* investment currency), that is ((future/invested) ** (1/average) - 1) * 100;
\* for 1000 invested, 1200 of future value and 2 years it is 9.54%.
C16_TimeWeightedRoi ==
    HasResult =>
        LET s == ret.summary
        IN  /\ s.average_investment_time = 0 => s.time_weighted_roi = 0
            /\ (s.average_investment_time > 0
                    /\ s.total_invested_investment_currency > 0) =>
                  Abs(Compounded(s.time_weighted_roi, s.average_investment_time)
                      - Quotient(s.total_future_value_investment_currency,
                                 s.total_invested_investment_currency)) <= 20
            /\ TwoYearCase => RoundTo(s.time_weighted_roi, 100) = 954

C16_Witness ==
    /\ TwoYearCase
    /\ Len(ret.results) = 1
    /\ ret.summary.time_weighted_roi > 0

-----------------------------------------------------------------------------
(* Properties of the reverse calculation, checked under SpecReverse *)

\* The reverse calculations the last script run showed
Calculations == {x \in {reverse.shown.sidebar, reverse.shown.analysis} : x.shown}

Invested == reverse.results.summary.total_invested_property_currency

\* C17: in every reverse calculation shown the ownership fraction is
\* min(invested / house amount, 1.0): it is 1 when the invested total reaches
\* or exceeds the house amount and invested / house amount below that, so it
\* never exceeds 1 and the investor's share never exceeds the base share.
C17_OwnershipCapped ==
    \A x \in Calculations :
        /\ Invested >= 0 => x.your_investment_percentage >= 0
        /\ x.your_investment_percentage <= Micro
        /\ Invested >= reverse.initial_house_amount => x.your_investment_percentage = Micro
        /\ Invested < reverse.initial_house_amount =>
              Abs(MulMicro(reverse.initial_house_amount, x.your_investment_percentage)
                  - Invested) <= 1
        /\ x.your_share_of_house <= x.house_value_portion

C17_Witness ==
    /\ reverse.shown.sidebar.shown
    /\ reverse.shown.analysis.shown
    /\ Invested > reverse.initial_house_amount
    /\ reverse.shown.sidebar.your_investment_percentage = Micro
    /\ reverse.shown.sidebar.your_share_of_house = reverse.shown.sidebar.house_value_portion

\* C18: a sale at or above the house amount has appreciation = selling
\* amount - house amount and base share = house amount; a sale below it has
\* appreciation 0 and base share = selling amount; the total return is base
\* share x ownership fraction plus the whole appreciation.
C18_ReturnComposition ==
    \A x \in Calculations :
        /\ reverse.selling_amount >= reverse.initial_house_amount =>
              /\ x.property_appreciation
                    = reverse.selling_amount - reverse.initial_house_amount
              /\ x.house_value_portion = reverse.initial_house_amount
        /\ reverse.selling_amount < reverse.initial_house_amount =>
              /\ x.property_appreciation = 0
              /\ x.house_value_portion = reverse.selling_amount
        /\ x.your_share_of_house
              = MulMicro(x.house_value_portion, x.your_investment_percentage)
        /\ x.your_total_return = x.your_share_of_house + x.property_appreciation

C18_Witness ==
    /\ reverse.shown.sidebar.shown
    /\ reverse.selling_amount > reverse.initial_house_amount
    /\ reverse.shown.sidebar.your_investment_percentage = Micro \div 2
    /\ reverse.shown.sidebar.property_appreciation = 200000
    /\ reverse.shown.sidebar.your_total_return
          = reverse.initial_house_amount \div 2 + 200000

\* House amount 1,000,000 with 500,000 invested
HalfOwned == reverse.initial_house_amount = 1000000 /\ Invested = 500000

\* C19: with a positive invested total the scenario ROI r satisfies
\* invested x (1 + r/100) = total return, that is
\* r = (total return / invested - 1) x 100; with house amount 1,000,000 and
\* 500,000 invested a sale at 1,200,000 returns 700,000 (ROI 40%) and a sale
\* at 800,000 returns 400,000 (ROI -20%).
C19_ScenarioRoi ==
    \A x \in Calculations :
        Invested > 0 =>
            /\ Abs(Times(Invested, Micro + Quotient(x.selling_roi, 100 * Percent))
                    - x.your_total_return) <= 2
            /\ (HalfOwned /\ reverse.selling_amount = 1200000) =>
                  x.your_total_return = 700000 /\ x.selling_roi = 40 * Percent
            /\ (HalfOwned /\ reverse.selling_amount = 800000) =>
                  x.your_total_return = 400000 /\ x.selling_roi = 0 - 20 * Percent

C19_Witness ==
    /\ HalfOwned
    /\ reverse.selling_amount = 1200000
    /\ reverse.shown.sidebar.shown
    /\ reverse.shown.sidebar.selling_roi = 40 * Percent
    /\ reverse.shown.analysis.selling_roi = 40 * Percent

\* The break-even amounts the last script run reported
BreakEvens ==
    {x.break_even_amount :
        x \in {y \in {reverse.shown.scenario, reverse.shown.quick_sidebar,
                      reverse.shown.quick_main} : y.shown}}

\* C20 as stated: every break-even amount reported is invested / ownership
\* fraction (0 when the fraction is not positive), and a sale at that amount has a
\* scenario ROI of 0 (here to 0.01 percent).
C20_BreakEvenIsZeroRoi ==
    \A amount \in BreakEvens :
        LET fraction == YourInvestmentPercentage(Invested, reverse.initial_house_amount)
        IN  IF fraction <= 0 THEN amount = 0
            ELSE /\ Abs(amount - Quotient(Invested, fraction)) <= 2
                 /\ Abs(ReverseCalculation(amount, reverse.initial_house_amount,
                                            reverse.results.summary).selling_roi)
                       <= Percent \div 100

\* C21 as stated: the reverse calculation never raises: every script run
\* with a positive selling amount and stored results shows the reverse
\* calculation and the break-even scenario; with a zero or negative invested
\* total the scenario ROI, the time-weighted ROI, the annualized return and
\* the break-even amount are 0 and the investor's share is not positive.
C21_NeverRaises ==
    /\ reverse.initial_house_amount > 0
    /\ (reverse.selling_amount > 0 /\ reverse.results.kind = "result") =>
          /\ ~reverse.shown.sidebar.raised
          /\ reverse.shown.sidebar.shown
          /\ reverse.shown.analysis.shown
          /\ reverse.shown.scenario.shown
    /\ Invested <= 0 =>
          /\ \A x \in Calculations :
                /\ x.selling_roi = 0
                /\ x.selling_time_weighted_roi = 0
                /\ x.annualized_return = 0
                /\ x.your_share_of_house <= 0
                /\ x.your_total_return = x.your_share_of_house + x.property_appreciation
          /\ \A amount \in BreakEvens : amount <= 0

\* The guarded cases of C21 occur: nothing invested, and a negative total
C21_Witness ==
    /\ reverse.results.kind = "result"
    /\ Invested = 0
    /\ reverse.selling_amount > reverse.initial_house_amount
    /\ reverse.shown.sidebar.shown
    /\ reverse.shown.analysis.shown
    /\ reverse.shown.scenario.shown
    /\ reverse.shown.sidebar.selling_roi = 0
    /\ reverse.shown.sidebar.your_total_return = 200000

C21_WitnessNegative ==
    /\ reverse.results.kind = "result"
    /\ Invested < 0
    /\ reverse.shown.analysis.shown
    /\ reverse.shown.analysis.selling_roi = 0

-----------------------------------------------------------------------------
(* The round trip through the resolver, checked under SpecRoundTrip *)

\* C24 as stated: when an amount has been converted from X to Y and back
\* with the resolver's rates for the same date, the two rates multiply to 1
\* and the amount that comes back is the amount that went in.
C24_RoundTripExact ==
    (trip.leg = 2 /\ trip.there.status = "ok" /\ trip.back.status = "ok") =>
        /\ MulMicro(trip.there.value, trip.back.value) = Micro
        /\ RoundTrip(trip.amount, trip.there.value, trip.back.value) = trip.amount

-----------------------------------------------------------------------------
(* Further properties of calculate_returns, checked under Spec *)

\* The last resolver call of the batch, when there is one
LastLookup == lookups[Len(lookups)]

CurrentRateLookup(l) == l.fn = "get_current_exchange_rate"

\* C23: no current-rate lookup of a batch fails: each returns a positive
\* rate; when the last answer of the quote source to a current-rate lookup
\* was an error or held no price, the lookup returned 1.0, the batch was not
\* aborted, and the payment's future value in investment currency is its
\* future value in property currency x 1.0.
C23_LiveFailureRecovered ==
    /\ \A k \in 1..Len(lookups) :
          CurrentRateLookup(lookups[k]) =>
              /\ lookups[k].status = "ok"
              /\ lookups[k].value > 0
              /\ lookups[k].i < c.i =>
                    c.internals[lookups[k].i].current_rate = lookups[k].value
    /\ (call.fn = "get_current_exchange_rate" /\ call.stage = 0
          /\ resp.kind \in {"error", "noprice"}) =>
          /\ LastLookup.value = Micro
          /\ ret.kind = "result"
          /\ c.internals[LastLookup.i].current_rate = Micro
          /\ c.internals[LastLookup.i].future_value_investment_currency
                = c.internals[LastLookup.i].future_value_property_currency

C23_Witness ==
    /\ HasResult
    /\ call.fn = "get_current_exchange_rate"
    /\ call.from # call.to
    /\ resp.kind = "error"
    /\ LastLookup.value = Micro
    /\ Len(ret.results) = 2

\* C26: a historical lookup has issued one request (the 5-day window) or
\* two different ones (the 5-day window, then the 30-day window); after an
\* error on a request no request is pending: the lookup has failed and
\* calculate_returns has returned None.
C26_AtMostTwoRequests ==
    /\ Len(reqs) <= 2
    /\ (call.fn \in Historical /\ reqs # <<>>) =>
          /\ reqs[1] = Request("chart_range", call.from, call.to, NarrowWindow)
          /\ Len(reqs) = 2 =>
                /\ reqs[2] = Request("chart_range", call.from, call.to, WideWindow)
                /\ reqs[2] # reqs[1]
          /\ call.stage \in {0, Len(reqs)}
    /\ (call.fn \in Historical /\ resp.kind = "error") =>
          /\ call.stage = 0
          /\ c.pc = "idle"
          /\ Failed(LastLookup)
          /\ ret = ReturnedNone

\* The 5-day request of a batch's lookup met an error: no 30-day request
C26_Witness ==
    /\ call.fn = "get_exchange_rate"
    /\ resp.kind = "error"
    /\ Len(reqs) = 1
    /\ ret = ReturnedNone
    /\ c.i = 2

C30_GainDecomposes ==
    HasResult =>
        ret.summary.total_future_value_investment_currency
            - ret.summary.total_invested_investment_currency
        = (ret.summary.total_pure_interest + ret.summary.total_currency_impact) * 100

-----------------------------------------------------------------------------
(* Properties of the session, checked under SpecSession *)

\* A payment with a non-positive amount or a currency code that is not supported
InvalidPayment(p) == p.amount <= 0 \/ p.amount_currency \notin SUPPORTED_CURRENCIES

\* The entries of the stored results
StoredEntries == reverse.results.results

\* C22 as stated: a list holding an invalid payment is rejected before any
\* request is issued: calculate_returns never waits for the quote source with
\* such a list, and no result with an entry for an invalid payment is
\* returned and stored.
C22_InvalidInputRejected ==
    /\ (\E k \in 1..Len(c.passed) : InvalidPayment(c.passed[k])) =>
          call.stage = 0 /\ reqs = <<>>
    /\ \A k \in 1..Len(StoredEntries) : ~InvalidPayment(Payment(StoredEntries[k]))

\* C25 as stated: whenever results are stored and no calculation is running
\* they hold one entry for each payment of the current list, in date order.
C25_ResultsOfCurrentPayments ==
    (Idle /\ reverse.results.kind = "result") =>
        [k \in 1..Len(StoredEntries) |-> Payment(StoredEntries[k])] = SortByDate(payments)

\* A step that ends the automatic calculation a slider change started with
\* payments in the list
AutoCalculationOver ==
    /\ session'.handler = "none"
    /\ \/ session.handler = "auto"
       \/ cfg'.desired_return # cfg.desired_return /\ payments # <<>>

\* C27 as stated: when the automatic calculation after a slider change (with
\* payments in the list) is over, stored results are the ones that
\* calculation returned for the slider's rate.
C27_RecomputedWithNewRate ==
    [][AutoCalculationOver =>
          /\ c'.desired_return = cfg'.desired_return
          /\ reverse'.results.kind = "result" =>
                ret'.kind = "result" /\ reverse'.results = ret']_vars

\* C27, amended: a slider change with payments in the list always starts a
\* calculation with the slider's new rate; when it returns a result, that
\* result replaces the stored results; when it fails, the stored results
\* (of an earlier rate, if any) stay as they were.
C27_RecomputedUnlessFailed ==
    [][/\ (cfg'.desired_return # cfg.desired_return /\ payments # <<>>) =>
             /\ c'.desired_return = cfg'.desired_return
             /\ session'.handler = "auto" \/ ret'.kind # "none"
       /\ AutoCalculationOver =>
             /\ c'.desired_return = cfg'.desired_return
             /\ ret'.kind \in {"result", "None"}
             /\ ret'.kind = "result" =>
                   /\ reverse'.results = ret'
                   /\ Len(ret'.results) = Len(payments')
             /\ ret'.kind = "None" => reverse'.results = reverse.results]_vars

\* An automatic calculation has run, and its result for the slider's rate is stored
C27_Witness ==
    /\ Idle
    /\ session.since_last_calculation = ProgressSleep
    /\ payments # <<>>
    /\ ret.kind = "result"
    /\ reverse.results = ret
    /\ c.desired_return = cfg.desired_return
    /\ session.previous_return_rate = cfg.desired_return
    /\ ~session.auto_calculate

\* A step in which a calculation of the session fails
CalculationFails ==
    /\ session'.handler = "none"
    /\ ret' = ReturnedNone
    /\ session.handler # "none" \/ ret # ret'

\* C28: a failed calculation, by the button or automatic, leaves the stored
\* results as they were; stored results change only to the complete result a
\* calculation has just returned (one entry per payment), and are removed
\* only by Clear All Payments, which empties the list.
C28_FailedCalculationKeepsResults ==
    [][/\ CalculationFails => reverse'.results = reverse.results
       /\ reverse'.results # reverse.results =>
             IF reverse'.results.kind = "result"
             THEN /\ ret'.kind = "result"
                  /\ reverse'.results = ret'
                  /\ Len(ret'.results) = Len(payments')
                  /\ session'.handler = "none"
             ELSE /\ reverse'.results = NoStored
                  /\ payments' = <<>>
                  /\ session.handler = "none"]_vars

\* Results are stored and the last calculation has failed
C28_Witness ==
    /\ Idle
    /\ session.handler = "none"
    /\ reverse.results.kind = "result"
    /\ ret = ReturnedNone

====
